---- MODULE Spec2Model ----
(***************************************************************************)
(* DraXon AI: the status / incident polling pipeline.                      *)
(*                                                                         *)
(* Modelled code:                                                          *)
(*   src/src/cogs/rsi_status_monitor.py     RSIStatusMonitorCog            *)
(*   src/src/cogs/rsi_incidents_monitor.py  RSIIncidentMonitorCog          *)
(*   src/src/cogs/incidents.py              IncidentsCog                   *)
(*   src/src/db/database.py                 init_redis                     *)
(*   src/src/utils/constants.py             RSI_API, CACHE_SETTINGS        *)
(*                                                                         *)
(* Specifications:                                                         *)
(*   SpecWindow  check_maintenance_window as a pure function of the clock  *)
(*               and the configured start / duration                       *)
(*   SpecFetch   make_request as a pure function of the attempt outcomes   *)
(*   SpecParse   the status-page parser as a pure function of the page and *)
(*               the snapshot it is merged into                            *)
(*   Spec        the two polling loops, their cache and the key-value      *)
(*               store, one action per handler                             *)
(***************************************************************************)
EXTENDS Integers, Sequences, FiniteSets, TLC

VARIABLES
    gate,                  \* SpecWindow: inputs and result of the gate
    req,                   \* SpecFetch: inputs and result of make_request
    parse,                 \* SpecParse: inputs and result of the page parser
    system_statuses,       \* RSIStatusMonitorCog.system_statuses
    last_incident_guid,    \* RSIIncidentMonitorCog.last_incident_guid
    last_incident_id,      \* IncidentsCog.last_incident_id
    cogs,                  \* the cog classes the bot has loaded
    incidents_channel_id,  \* DraXonAIBot.incidents_channel_id
    redis,                 \* the external key-value store
    ready,                 \* DraXonAIBot.is_ready()
    statusLoop,            \* lifecycle of check_status_task
    incidentLoop,          \* lifecycle of check_incidents_task / check_incidents
    posted,                \* messages sent to the incidents channel, per guid
    tick,                  \* what the last handler run did
    feed,                  \* SpecFeed: a parsed feed and the incident built
    api,                   \* SpecApi: one make_api_request call
    view,                  \* SpecSetup: the ChannelSelectView of /setup
    history,               \* SpecHistory: the status_history list and its writes
    org,                   \* SpecMembers: one get_org_members call
    proc,                  \* SpecMain: the main coroutine of bot.py
    co                     \* SpecAwait: where each check_status coroutine is

vars == <<gate, req, parse, system_statuses, last_incident_guid, last_incident_id,
          cogs, incidents_channel_id, redis, ready, statusLoop,
          incidentLoop, posted, tick, feed, api, view, history, org, proc, co>>

None == "None"

-----------------------------------------------------------------------------
(* Configuration: src/src/utils/constants.py                               *)

\* Times of day are counted in seconds since midnight.
Minute == 6 * 10
Hour   == 60 * Minute
Day    == 24 * Hour

HHMM(h, m) == [hh |-> h, mm |-> m]

MAINTENANCE_START    == HHMM(22, 0)
MAINTENANCE_DURATION == 3
STATUS_TTL           == 300
max_retries          == 3

STATUS_EMOJIS == {"operational", "degraded", "partial", "major", "maintenance"}

-----------------------------------------------------------------------------
(* Maintenance-window gate                                                 *)

\* datetime.strptime(s, "%H:%M").time(): seconds since midnight, or -1 when
\* the text is not a time of day (strptime raises ValueError).
strptime(s) ==
    IF s.hh \in 0..23 /\ s.mm \in 0..59
    THEN s.hh * Hour + s.mm * Minute
    ELSE -1

\* (datetime.combine(today, start) + timedelta(hours=d)).time(): the date is
\* dropped, only the time of day of the sum is kept.
maintenance_end(start, duration) == (start + duration * Hour) % Day

check_maintenance_window_nowrap(now, startText, duration) ==
    LET maintenance_start == strptime(startText) IN
    IF maintenance_start < 0 THEN FALSE
    ELSE LET end == maintenance_end(maintenance_start, duration) IN
         (maintenance_start <= now /\ now <= end)

check_maintenance_window(now, startText, duration) ==
    LET maintenance_start == strptime(startText) IN
    IF maintenance_start < 0 THEN FALSE           \* except Exception: return False
    ELSE LET end == maintenance_end(maintenance_start, duration) IN
         IF end < maintenance_start
         THEN (now >= maintenance_start \/ now <= end)
         ELSE (maintenance_start <= now /\ now <= end)

-----------------------------------------------------------------------------
(* HTTP fetcher                                                            *)

\* What one session.get attempt can do.
\*   ok      status 200 and the body is read
\*   badbody status 200, reading the body raises
\*   http    a status other than 200
\*   timeout asyncio.TimeoutError
\*   error   any other exception (transport error)
Outcomes == {"ok", "badbody", "http", "timeout", "error"}

RECURSIVE Pow2(_)
Pow2(n) == IF n = 0 THEN 1 ELSE 2 * Pow2(n - 1)      \* 2 ** n

RequestResult(b, n, w, r) == [body |-> b, attempts |-> n, waits |-> w, raised |-> r]

\* The for loop of make_request from iteration `attempt` on; n counts the
\* session.get calls made and w lists the asyncio.sleep arguments so far.
RECURSIVE request_loop_sleep_always(_, _, _, _, _)
request_loop_sleep_always(run, content, attempt, n, w) ==
    IF attempt >= max_retries THEN RequestResult(None, n, w, FALSE)
    ELSE IF run[attempt + 1] = "ok" THEN RequestResult(content, n + 1, w, FALSE)
    ELSE request_loop_sleep_always(run, content, attempt + 1, n + 1,
                                   Append(w, Pow2(attempt)))

RECURSIVE request_loop_uncaught(_, _, _, _, _)
request_loop_uncaught(run, content, attempt, n, w) ==
    IF attempt >= max_retries THEN RequestResult(None, n, w, FALSE)
    ELSE IF run[attempt + 1] = "ok" THEN RequestResult(content, n + 1, w, FALSE)
    ELSE IF run[attempt + 1] = "error" THEN RequestResult(None, n + 1, w, TRUE)
    ELSE request_loop_uncaught(run, content, attempt + 1, n + 1,
              IF attempt < max_retries - 1 THEN Append(w, Pow2(attempt)) ELSE w)

RECURSIVE request_loop(_, _, _, _, _)
request_loop(run, content, attempt, n, w) ==
    IF attempt >= max_retries THEN RequestResult(None, n, w, FALSE)
    ELSE IF run[attempt + 1] = "ok" THEN RequestResult(content, n + 1, w, FALSE)
    ELSE \* warning logged or exception caught; back off unless last attempt
         request_loop(run, content, attempt + 1, n + 1,
              IF attempt < max_retries - 1 THEN Append(w, Pow2(attempt)) ELSE w)

\* cog is "status" (RSIStatusMonitorCog) or "incident" (RSIIncidentMonitorCog).
\* session is None or "open"; run[i] is the outcome of the i-th attempt;
\* content is the body the server would send (a string; None is no body).
make_request(cog, session, run, content) ==
    IF cog = "status" /\ session = None
    THEN RequestResult(None, 0, <<>>, FALSE)      \* "HTTP session not initialized"
    ELSE IF session = None
    THEN \* None.get raises AttributeError inside the try on every attempt
         request_loop([i \in 1..max_retries |-> "error"], content, 0, 0, <<>>)
    ELSE request_loop(run, content, 0, 0, <<>>)

-----------------------------------------------------------------------------
(* Organization API requests (RSIIntegrationCog.make_api_request)          *)

API_ATTEMPTS == 3                  \* for attempt in range(3)
DEFAULT_RETRY_AFTER == 60          \* response.headers.get('Retry-After', 60)

\* CACHE_SETTINGS has the keys STATUS_TTL, MEMBER_DATA_TTL, ORG_DATA_TTL and
\* VERIFICATION_TTL; CACHE_SETTINGS['API_TTL'] raises KeyError.
api_ttl_defined == FALSE

\* The Retry-After header of a 429 answer: absent, a number of seconds, or
\* an HTTP date (which int() does not parse).
Header(p, n, s) == [present |-> p, numeric |-> n, seconds |-> s]
NoHeader   == Header(FALSE, FALSE, 0)
Seconds(s) == Header(TRUE, TRUE, s)
HttpDate   == Header(TRUE, FALSE, 0)

RetryAfterSeconds == {0, 7, 120}
RetryAfterHeaders == {NoHeader, HttpDate} \cup {Seconds(s) : s \in RetryAfterSeconds}

\* What one session.get attempt can do.
\*   ok      status 200 with a JSON body
\*   badjson status 200, json.loads raises JSONDecodeError
\*   limited status 429
\*   http    any other status
\*   error   session.get or response.text() raises
Answer(k, h) == [kind |-> k, header |-> h]
ApiAnswers ==
    {Answer(k, NoHeader) : k \in {"ok", "badjson", "http", "error"}} \cup
    {Answer("limited", h) : h \in RetryAfterHeaders}

NoSleep == 0 - 1                   \* the attempt is not followed by a sleep

\* w[k] is the asyncio.sleep argument after attempt k (NoSleep if none).
ApiResult(d, n, w, c) == [data |-> d, attempts |-> n, waits |-> w, cached |-> c]

\* except Exception (lines 157-160): back off unless it was the last attempt
caught_wait(attempt) == IF attempt < 2 THEN Pow2(attempt) ELSE NoSleep

RECURSIVE api_loop_ignores_header(_, _, _, _, _)
api_loop_ignores_header(run, up, attempt, n, w) ==
    IF attempt >= API_ATTEMPTS THEN ApiResult(None, n, w, FALSE)
    ELSE IF run[attempt + 1].kind = "ok" /\ api_ttl_defined /\ up
    THEN ApiResult("data", n + 1, Append(w, NoSleep), TRUE)
    ELSE IF run[attempt + 1].kind = "badjson"
    THEN ApiResult(None, n + 1, Append(w, NoSleep), FALSE)
    ELSE IF run[attempt + 1].kind = "limited"
    THEN api_loop_ignores_header(run, up, attempt + 1, n + 1,
                                 Append(w, DEFAULT_RETRY_AFTER))
    ELSE IF run[attempt + 1].kind = "http"
    THEN api_loop_ignores_header(run, up, attempt + 1, n + 1,
                                 Append(w, Pow2(attempt)))
    ELSE api_loop_ignores_header(run, up, attempt + 1, n + 1,
                                 Append(w, caught_wait(attempt)))

\* The for loop of make_api_request from iteration `attempt` on; up says
\* whether the store answers, n counts the session.get calls.
RECURSIVE api_loop(_, _, _, _, _)
api_loop(run, up, attempt, n, w) ==
    IF attempt >= API_ATTEMPTS THEN ApiResult(None, n, w, FALSE)
    ELSE IF run[attempt + 1].kind = "ok" /\ api_ttl_defined /\ up
    THEN ApiResult("data", n + 1, Append(w, NoSleep), TRUE)
    ELSE IF run[attempt + 1].kind = "badjson"
    THEN ApiResult(None, n + 1, Append(w, NoSleep), FALSE)
    ELSE IF run[attempt + 1].kind = "limited" /\ ~run[attempt + 1].header.present
    THEN api_loop(run, up, attempt + 1, n + 1, Append(w, DEFAULT_RETRY_AFTER))
    ELSE IF run[attempt + 1].kind = "limited" /\ run[attempt + 1].header.numeric
    THEN api_loop(run, up, attempt + 1, n + 1,
                  Append(w, run[attempt + 1].header.seconds))
    ELSE IF run[attempt + 1].kind = "http"
    THEN api_loop(run, up, attempt + 1, n + 1, Append(w, Pow2(attempt)))
    ELSE \* an exception reaches line 157: session.get or text() raised,
         \* int() of an HTTP date raised ValueError, or the 200 branch
         \* raised (KeyError for 'API_TTL', or redis.set while the store
         \* is down)
         api_loop(run, up, attempt + 1, n + 1, Append(w, caught_wait(attempt)))

\* session is None or "open"; up: the store answers; cached: the cache key
\* holds a value; run[i] is the answer to the i-th attempt.
make_api_request(session, up, cached, run) ==
    IF ~up THEN ApiResult(None, 0, << >>, FALSE)      \* redis.get raises
    ELSE IF cached THEN ApiResult("data", 0, << >>, FALSE)
    ELSE IF session = None
    THEN api_loop([i \in 1..API_ATTEMPTS |-> Answer("error", NoHeader)],
                  up, 0, 0, << >>)
    ELSE api_loop(run, up, 0, 0, << >>)

-----------------------------------------------------------------------------
(* The organization's member list (RSIIntegrationCog.get_org_members)      *)

MEMBERS_PER_PAGE == 32

\* What the API holds for one page of the member list, and how the request
\* for it goes: cached says the rsi_api:... key of the page is in the store,
\* run is the answers to the attempts otherwise.  body is the JSON document:
\* success is its 'success' field and count the length of its 'data' list.
PageAnswer(cached, run, success, count) ==
    [cached |-> cached, run |-> run, success |-> success, count |-> count]

AllLimited == [i \in 1..API_ATTEMPTS |-> Answer("limited", NoHeader)]
AllAnswerOk == [i \in 1..API_ATTEMPTS |-> Answer("ok", NoHeader)]

PageAnswers ==
    {PageAnswer(TRUE, AllAnswerOk, TRUE, MEMBERS_PER_PAGE),
     PageAnswer(TRUE, AllAnswerOk, TRUE, 5),
     PageAnswer(TRUE, AllAnswerOk, TRUE, 0),
     PageAnswer(TRUE, AllAnswerOk, FALSE, 0),
     PageAnswer(FALSE, AllAnswerOk, TRUE, MEMBERS_PER_PAGE),
     PageAnswer(FALSE, AllLimited, TRUE, MEMBERS_PER_PAGE)}

\* members is the length of the list; ended names the break that left the
\* while loop; stored says whether the list was written to the cache key.
OrgResult(m, e, n, st) == [members |-> m, ended |-> e, requests |-> n, stored |-> st]

\* The while loop of get_org_members from page `page` on.  A page past the
\* last one the API has is an empty page.
RECURSIVE org_pages(_, _, _, _)
org_pages(pages, page, members, n) ==
    IF page > Len(pages) THEN OrgResult(members, "empty", n + 1, FALSE)
    ELSE LET r == make_api_request("open", TRUE, pages[page].cached,
                                   pages[page].run)
         IN
         IF r.data = None                  \* if not data: break
         THEN OrgResult(members, "failed", n + 1, FALSE)
         ELSE IF ~pages[page].success      \* if not data.get('success'): break
         THEN OrgResult(members, "unsuccessful", n + 1, FALSE)
         ELSE IF pages[page].count = 0     \* if not data.get('data'): break
         THEN OrgResult(members, "empty", n + 1, FALSE)
         ELSE IF pages[page].count < MEMBERS_PER_PAGE
         THEN OrgResult(members + pages[page].count, "short", n + 1, FALSE)
         ELSE org_pages(pages, page + 1, members + pages[page].count, n + 1)

\* up: the store answers; listed: the org_members key holds a list (of
\* `listed_members` entries).
get_org_members(up, listed, listed_members, pages) ==
    IF ~up THEN OrgResult(0, "raised", 0, FALSE)           \* except: return []
    ELSE IF listed THEN OrgResult(listed_members, "cached", 0, FALSE)
    ELSE LET r == org_pages(pages, 1, 0, 0) IN
         [r EXCEPT !.stored = r.members > 0]               \* if members:

-----------------------------------------------------------------------------
(* Start and shutdown of the process (bot.py main)                         *)

Services == {"bot", "db_pool", "redis_pool"}

\* How the start of main goes: check_required_dirs raises, Settings()
\* raises, initialize_services raises before anything is created (in this
\* repository init_db and init_redis take no parameter and bot.py calls
\* them with one, so the call raises TypeError), it raises in init_redis
\* after the database pool was created, or all of it goes through.
InitOutcomes == {"dirs raise", "settings raise", "raises", "redis raises", "ok"}

\* How `async with bot: await bot.start(token)` ends.
RunOutcomes == {"normal", "interrupt", "error"}

\* One close call on a service and whether it went through.
Close(sv, ok) == [service |-> sv, ok |-> ok]

\* main's local variables (None or set), the services created so far and
\* the close calls made so far, in order.
Main(pc, init, run, locals, created, closes) ==
    [pc |-> pc, init |-> init, run |-> run, locals |-> locals,
     created |-> created, closes |-> closes]

\* cleanup_services(bot, db_pool, redis_pool): the closes it makes, in
\* order, when the await named by `fails` raises ("none": no await does);
\* a raise ends the try block.
cleanup_closes(locals, fails) ==
    LET call(sv) == IF sv \in locals THEN <<Close(sv, fails # sv)>> ELSE << >>
    IN  IF fails = "bot" /\ "bot" \in locals THEN call("bot")
        ELSE IF fails = "db_pool" /\ "db_pool" \in locals
        THEN call("bot") \o call("db_pool")
        ELSE call("bot") \o call("db_pool") \o call("redis_pool")

-----------------------------------------------------------------------------
(* The channel-setup view (ChannelSelectView)                              *)

ChannelKinds == {"incidents", "promotion", "demotion", "reminder"}

\* The text channels the guild offers in a select.
TextChannels == {"c1", "c2"}

\* ChannelSelectView.__init__ and the decorators: no channel chosen, the
\* selects and Reset enabled, Confirm Setup disabled=True.  result is what
\* the last Confirm press answered ("" before any), stored the mapping it
\* wrote to channel_ids (<<>> when none), finished says the view has timed
\* out and takes no more interactions.
ChannelSelectView ==
    [channel         |-> [k \in ChannelKinds |-> None],
     select_disabled |-> [k \in ChannelKinds |-> FALSE],
     reset_disabled  |-> FALSE,
     confirm_disabled |-> TRUE,
     result          |-> "",
     stored          |-> << >>,
     finished        |-> FALSE]

\* all([self.incidents_channel, ..., self.reminder_channel])
all_selected(v) == \A k \in ChannelKinds : v.channel[k] # None

\* check_completion: the Confirm Setup button is enabled iff every channel
\* is selected.
check_completion(v) == [v EXCEPT !.confirm_disabled = ~all_selected(v)]

\* incidents_select / promotion_select / demotion_select / reminder_select
channel_select(v, k, ch) ==
    check_completion([v EXCEPT !.channel[k] = ch, !.select_disabled[k] = TRUE])

\* reset_button: the selects are enabled again and the four attributes
\* cleared; the buttons are not touched.
reset_selections(v) ==
    [v EXCEPT !.select_disabled = [k \in ChannelKinds |-> FALSE],
              !.channel = [k \in ChannelKinds |-> None]]

\* confirm_button: building channel_data reads .id of each attribute
\* (AttributeError on None); hmset may raise; both end in the except clause.
confirm_setup(v, up) ==
    IF ~all_selected(v) \/ ~up THEN [v EXCEPT !.result = "error"]
    ELSE [v EXCEPT !.result = "complete",
                   !.stored = <<v.channel>>,
                   !.select_disabled = [k \in ChannelKinds |-> TRUE],
                   !.reset_disabled = TRUE,
                   !.confirm_disabled = TRUE]

\* on_timeout: every child disabled
timed_out(v) ==
    [v EXCEPT !.select_disabled = [k \in ChannelKinds |-> TRUE],
              !.reset_disabled = TRUE,
              !.confirm_disabled = TRUE,
              !.finished = TRUE]

-----------------------------------------------------------------------------
(* Status page and its parser                                              *)

Components == {"platform", "persistent-universe", "electronic-access"}

\* A text is a sequence of words; up says whether the word has capitals.
\* The word " " is white space.
W(word)  == [w |-> word, up |-> FALSE]
Up(word) == [w |-> word, up |-> TRUE]
SP       == W(" ")

\* str.strip()
RECURSIVE strip(_)
strip(s) ==
    IF s = <<>> THEN s
    ELSE IF Head(s) = SP THEN strip(Tail(s))
    ELSE IF s[Len(s)] = SP THEN strip(SubSeq(s, 1, Len(s) - 1))
    ELSE s

lower_noop(s) == s

\* str.lower()
lower(s) == [i \in DOMAIN s |-> W(s[i].w)]

\* kw in s
Contains(kw, s) ==
    \E i \in 1..Len(s) :
        /\ i + Len(kw) - 1 <= Len(s)
        /\ SubSeq(s, i, i + Len(kw) - 1) = kw

KwPlatform == <<W("platform")>>
KwPU       == <<W("persistent"), SP, W("universe")>>
KwArena    == <<W("arena"), SP, W("commander")>>

\* One <div class="component">. name is <<>> when the span.name is missing,
\* else <<text>>; status is "<nospan>" when span.component-status is missing,
\* "<noattr>" when it has no data-status attribute, else the attribute.
Block(n, s) == [name |-> n, status |-> s]

TxtPlatform   == <<Up("platform")>>
TxtPlatformUp == <<SP, Up("platform"), SP, Up("services"), SP>>
TxtPU         == <<Up("persistent"), SP, Up("universe")>>
TxtArena      == <<Up("arena"), SP, Up("commander")>>
TxtLauncher   == <<Up("launcher")>>
TxtPlatformPU == <<Up("platform"), SP, W("persistent"), SP, W("universe")>>

\* The bodies the status endpoint serves in this model; "" is an empty body.
PageBlocks(content) ==
    CASE content = "all-operational" ->
            << Block(<<TxtPlatform>>, "operational"),
               Block(<<TxtPU>>, "operational"),
               Block(<<TxtArena>>, "operational") >>
      [] content = "platform-major" ->
            << Block(<<TxtPlatform>>, "major"),
               Block(<<TxtPU>>, "operational"),
               Block(<<TxtArena>>, "operational") >>
      [] content = "no-arena" ->
            << Block(<<TxtPlatform>>, "operational"),
               Block(<<TxtPU>>, "degraded") >>
      [] content = "two-platform" ->
            << Block(<<TxtPlatform>>, "major"),
               Block(<<TxtPlatformUp>>, "operational") >>
      [] content = "odd" ->
            << Block(<<>>, "major"),
               Block(<<TxtPU>>, "<nospan>"),
               Block(<<TxtLauncher>>, "major"),
               Block(<<TxtArena>>, "<noattr>") >>
      [] content = "custom-status" ->
            << Block(<<TxtPU>>, "under-maintenance") >>
      [] content = "mixed-name" ->
            << Block(<<TxtPlatformPU>>, "degraded") >>
      [] OTHER -> << >>

Pages == {"all-operational", "platform-major", "no-arena", "two-platform", "odd",
          "custom-status", "mixed-name", "no-components"}

ParseResult(st, ch) == [statuses |-> st, status_changed |-> ch]

\* Which tracked component a (stripped, lowered) name is mapped to.
component_of(name) ==
    IF Contains(KwPlatform, name) THEN "platform"
    ELSE IF Contains(KwPU, name) THEN "persistent-universe"
    ELSE IF Contains(KwArena, name) THEN "electronic-access"
    ELSE None

\* The for loop over soup.find_all('div', class_='component').
RECURSIVE parse_loop(_, _, _, _)
parse_loop(blocks, i, st, changed) ==
    IF i > Len(blocks) THEN ParseResult(st, changed)
    ELSE LET b == blocks[i] IN
         IF b.name = <<>> \/ b.status = "<nospan>"
         THEN parse_loop(blocks, i + 1, st, changed)              \* continue
         ELSE LET name   == lower(strip(b.name[1]))
                  status == IF b.status = "<noattr>" THEN "unknown" ELSE b.status
                  c      == component_of(name)
              IN  IF c = None THEN parse_loop(blocks, i + 1, st, changed)
                  ELSE parse_loop(blocks, i + 1, [st EXCEPT ![c] = status],
                                  changed \/ st[c] # status)

parse_status_page_replace(content, st) ==
    parse_loop(PageBlocks(content), 1, [c \in Components |-> "unknown"], FALSE)

\* soup = BeautifulSoup(content), status_changed = False, then the loop.
parse_status_page(content, st) == parse_loop(PageBlocks(content), 1, st, FALSE)

-----------------------------------------------------------------------------
(* The key-value store (redis.asyncio, src/src/db/database.py)             *)

\* init_redis builds the client with decode_responses=True: every reply is a
\* str, and str has no decode().
decode_responses == TRUE

\* A key that may be absent is <<>> or <<[val |-> v, ttl |-> t]>>, where t is
\* "ttl" (an expiry is set) or "persist" (no expiry).
Entry(v, t) == <<[val |-> v, ttl |-> t]>>

Store(ss, sh, li, lid, ch) ==
    [system_status |-> ss, status_history |-> sh, latest_incident |-> li,
     last_incident_id |-> lid, channel_ids |-> ch]

\* HSET of every field of `mapping`: an existing key keeps its expiry, a new
\* key has none.
hmset(entry, mapping) ==
    IF entry = <<>> THEN Entry(mapping, "persist")
    ELSE Entry(mapping, entry[1].ttl)

\* EXPIRE key seconds
expire(entry, seconds) ==
    IF entry = <<>> THEN entry ELSE Entry(entry[1].val, "ttl")

\* LPUSH
lpush(list, v) == <<v>> \o list

ltrim_keeps_all(list, start, stop) == list

\* LTRIM list start stop (both ends included, counted from 0)
ltrim(list, start, stop) ==
    SubSeq(list, start + 1, IF stop + 1 < Len(list) THEN stop + 1 ELSE Len(list))

HISTORY_STOP == 99

-----------------------------------------------------------------------------
(* RSIStatusMonitorCog                                                     *)

InitialStatuses == [c \in Components |-> "operational"]

\* dict.update with the decoded reply of HGETALL; raised is the
\* AttributeError of str.decode.
update_from_cache(st, entry) ==
    IF decode_responses
    THEN [statuses |-> st, raised |-> TRUE]
    ELSE [statuses |-> [c \in Components |-> entry[1].val[c]], raised |-> FALSE]

\* What check_status did: ret is FALSE for None and TRUE for the dict
\* self.system_statuses; statuses and store are the state it leaves.
StatusResult(ret, st, store, g, rq, page, changed) ==
    [ret |-> ret, statuses |-> st, store |-> store, gate |-> g,
     attempts |-> rq.attempts, body |-> rq.body, page |-> page,
     status_changed |-> changed]

NoRequest == RequestResult(None, 0, <<>>, FALSE)

\* Lines 137-155: the store calls made after a change, numbered 2..5 within
\* check_status; call number failAt raises (0: none does).
status_writes(st, store, failAt) ==
    LET s2 == [store EXCEPT !.system_status = hmset(@, st)]
        s3 == [s2 EXCEPT !.system_status = expire(@, STATUS_TTL)]
        s4 == [s3 EXCEPT !.status_history = lpush(@, st)]
        s5 == [s4 EXCEPT !.status_history = ltrim(@, 0, HISTORY_STOP)]
    IN  CASE failAt = 2 -> [store |-> store, raised |-> TRUE]
          [] failAt = 3 -> [store |-> s2, raised |-> TRUE]
          [] failAt = 4 -> [store |-> s3, raised |-> TRUE]
          [] failAt = 5 -> [store |-> s4, raised |-> TRUE]
          [] OTHER      -> [store |-> s5, raised |-> FALSE]

\* f"{datetime.utcnow().isoformat()}:{str(self.system_statuses)}"
history_entry(at, st) == [at |-> at, statuses |-> st]

\* Lines 150-155 alone: lpush is call 4 and ltrim call 5 of status_writes.
history_writes(list, entry, failAt) ==
    LET l4 == lpush(list, entry)
        l5 == ltrim(l4, 0, HISTORY_STOP)
    IN  CASE failAt = 4 -> [list |-> list, raised |-> TRUE]
          [] failAt = 5 -> [list |-> l4, raised |-> TRUE]
          [] OTHER      -> [list |-> l5, raised |-> FALSE]

fetch_failed_marks_unknown(st, store, rq) ==
    StatusResult(FALSE, [c \in Components |-> "unknown"], store, "out", rq, None,
                 FALSE)

\* Lines 105-107: if not content: log "Failed to fetch status page", return
\* None.
fetch_failed(st, store, rq) ==
    StatusResult(FALSE, st, store, "out", rq, None, FALSE)

check_status(st, store, env) ==
    IF env.failAt = 1                                      \* hgetall raises
    THEN StatusResult(FALSE, st, store, "not asked", NoRequest, None, FALSE)
    ELSE IF store.system_status # <<>>                     \* if cached:
    THEN LET u == update_from_cache(st, store.system_status) IN
         StatusResult(~u.raised, u.statuses, store, "not asked", NoRequest,
                      None, FALSE)
    ELSE IF check_maintenance_window(env.now, MAINTENANCE_START,
                                     MAINTENANCE_DURATION)
    THEN StatusResult(TRUE, [c \in Components |-> "maintenance"], store,
                      "in", NoRequest, None, FALSE)
    ELSE LET rq == make_request("status", env.session, env.run, env.content) IN
         IF rq.raised \/ rq.body = None \/ rq.body = ""   \* if not content:
         THEN fetch_failed(st, store, rq)
         ELSE LET p == parse_status_page(rq.body, st) IN
              IF ~p.status_changed
              THEN StatusResult(TRUE, p.statuses, store, "out", rq, rq.body, FALSE)
              ELSE LET w == status_writes(p.statuses, store, env.failAt) IN
                   StatusResult(~w.raised, p.statuses, w.store, "out", rq,
                                rq.body, TRUE)

-----------------------------------------------------------------------------
(* Incident feed and the two incident cogs                                 *)

\* One feed entry: guid is None when the entry has no <guid>; tags are the
\* <category> texts in document order.
FeedEntry(g, t, tags) == [guid |-> g, title |-> t, tags |-> tags]

EntryA  == FeedEntry("A", "Major outage", <<"platform", "major">>)
EntryB  == FeedEntry("B", "Login issues", <<"degraded", "launcher", "partial">>)
EntryNG == FeedEntry(None, "Notice", << >>)

\* The bodies the feed endpoint serves in this model, newest entry first.
FeedEntries(content) ==
    CASE content = "feed-A"      -> <<EntryA>>
      [] content = "feed-B-A"    -> <<EntryB, EntryA>>
      [] content = "feed-noguid" -> <<EntryNG>>
      [] OTHER                   -> << >>

Feeds == {"feed-A", "feed-B-A", "feed-noguid", "feed-none"}
Guids == {"A", "B", None}

SelectTags_unfiltered(tags, keep) == tags

\* [t for t in tags if (t in STATUS_EMOJIS) == keep], in document order
RECURSIVE SelectTags(_, _)
SelectTags(tags, keep) ==
    IF tags = <<>> THEN <<>>
    ELSE IF (Head(tags) \in STATUS_EMOJIS) = keep
         THEN <<Head(tags)>> \o SelectTags(Tail(tags), keep)
         ELSE SelectTags(Tail(tags), keep)

\* The dict built from the first entry; timestamp is datetime.now().
Incident(e) ==
    [guid       |-> e.guid,
     title      |-> e.title,
     components |-> SelectTags(e.tags, FALSE),
     status     |-> IF SelectTags(e.tags, TRUE) = <<>> THEN "unknown"
                    ELSE Head(SelectTags(e.tags, TRUE)),
     timestamp  |-> "datetime"]

\* What the cog makes of the parsed feed: <<>> for None, else <<incident>>,
\* built from the first entry.  feedparser raises AttributeError for
\* latest.guid when the entry has none (get_latest_incident then returns
\* None); IncidentsCog takes None as the id.
latest_entry_incident(cog, entries) ==
    IF entries = <<>> THEN <<>>
    ELSE IF cog = "incident" /\ entries[1].guid = None THEN <<>>
    ELSE <<Incident(entries[1])>>

\* rsi_incidents_monitor.py uses json.loads / json.dumps and never imports
\* json: evaluating the name raises NameError.
json_imported == FALSE

\* json.dumps(incident): NameError, or TypeError for the datetime value.
json_dumps_raises(incident) == ~json_imported \/ incident.timestamp = "datetime"

\* eval(str(incident)) in incidents.py: the text holds datetime.datetime(...)
\* and the module's name datetime is the class, which has no attribute
\* datetime: AttributeError.
eval_raises(incident) == incident.timestamp = "datetime"

IncidentResult(ret, store, g, rq) ==
    [ret |-> ret, store |-> store, gate |-> g, attempts |-> rq.attempts,
     body |-> rq.body]

\* RSIIncidentMonitorCog.get_latest_incident; ret is <<>> for None, else
\* <<incident>>. The store calls of an incident tick are numbered: 1 get
\* latest_incident, 2 set latest_incident, 3 set last_incident_id.
get_latest_incident(store, env) ==
    IF check_maintenance_window(env.now, MAINTENANCE_START, MAINTENANCE_DURATION)
    THEN IncidentResult(<<>>, store, "in", NoRequest)
    ELSE IF env.failAt = 1
    THEN IncidentResult(<<>>, store, "out", NoRequest)
    ELSE IF store.latest_incident # <<>>
    THEN IncidentResult(IF json_imported THEN <<store.latest_incident[1].val>>
                        ELSE <<>>, store, "out", NoRequest)
    ELSE LET rq == make_request("incident", env.session, env.run, env.content) IN
         IF rq.raised \/ rq.body = None \/ rq.body = ""
         THEN IncidentResult(<<>>, store, "out", rq)
         ELSE LET built == latest_entry_incident("incident", FeedEntries(rq.body)) IN
              IF built = <<>> THEN IncidentResult(<<>>, store, "out", rq)
              ELSE LET incident == built[1] IN
                   IF json_dumps_raises(incident) \/ env.failAt = 2
                   THEN IncidentResult(<<>>, store, "out", rq)
                   ELSE IncidentResult(<<incident>>,
                            [store EXCEPT !.latest_incident = Entry(incident, "ttl")],
                            "out", rq)

\* IncidentsCog.get_latest_incident: no maintenance gate, one GET, no retry.
legacy_get_latest_incident(store, env) ==
    IF env.failAt = 1
    THEN IncidentResult(<<>>, store, "not asked", NoRequest)
    ELSE IF store.latest_incident # <<>>
    THEN IncidentResult(IF eval_raises(store.latest_incident[1].val) THEN <<>>
                        ELSE <<store.latest_incident[1].val>>,
                        store, "not asked", NoRequest)
    ELSE LET rq == RequestResult(IF env.session # None /\ env.run[1] = "ok"
                                 THEN env.content ELSE None,
                                 IF env.session = None THEN 0 ELSE 1, <<>>, FALSE)
         IN
         IF rq.body = None THEN IncidentResult(<<>>, store, "not asked", rq)
         ELSE LET built == latest_entry_incident("legacy", FeedEntries(rq.body)) IN
              IF built = <<>> THEN IncidentResult(<<>>, store, "not asked", rq)
              ELSE LET incident == built[1] IN
                   IF env.failAt = 2
                   THEN IncidentResult(<<>>, store, "not asked", rq)
                   ELSE IncidentResult(<<incident>>,
                            [store EXCEPT !.latest_incident = Entry(incident, "ttl")],
                            "not asked", rq)

\* 'major' in incident['title'].lower()
IsMajor(incident) == incident.title = "Major outage"

\* The part of the task body after get_latest_incident (both cogs): last is
\* the cog's last-seen id. sent is the guid of the message sent, or "" when
\* none was; raised says whether an exception reached the task's except.
NotifyResult(last, store, sent, raised) ==
    [last |-> last, store |-> store, sent |-> sent, raised |-> raised]

notify_incident(r, last, env, pins) ==
    IF r.ret = <<>> \/ r.ret[1].guid = last
    THEN NotifyResult(last, r.store, "", FALSE)
    ELSE LET incident == r.ret[1] IN
         IF ~env.channel_found                     \* "Incidents channel not found"
         THEN NotifyResult(incident.guid, r.store, "", FALSE)
         ELSE IF ~env.send_ok                              \* channel.send raises
         THEN NotifyResult(incident.guid, r.store, "", TRUE)
         ELSE IF pins /\ IsMajor(incident) /\ ~env.pin_ok    \* message.pin raises
         THEN NotifyResult(incident.guid, r.store, incident.guid, TRUE)
         ELSE IF env.failAt = 3 \/ incident.guid = None     \* redis.set raises
         THEN NotifyResult(incident.guid, r.store, incident.guid, TRUE)
         ELSE NotifyResult(incident.guid,
                           [r.store EXCEPT !.last_incident_id = incident.guid],
                           incident.guid, FALSE)

-----------------------------------------------------------------------------
(* Environment of one handler run                                          *)

MaxPosts   == 2     \* messages per guid the model follows
MaxChanges == 2     \* status_history entries the model follows

Noon     == 12 * Hour
LateEve  == 23 * Hour + 30 * Minute

AllOk    == <<"ok", "ok", "ok">>
OkRuns   == {AllOk, <<"timeout", "badbody", "ok">>}

\* The pages served to the polling loop; the parser is run on all of Pages
\* in SpecParse.
TickPages == {"platform-major", "two-platform"}
FailRun  == <<"http", "timeout", "error">>

StatusEnv(f, n, s, r, c, cog, ok) ==
    [failAt |-> f, now |-> n, session |-> s, run |-> r, content |-> c,
     status_cog |-> cog, notify_ok |-> ok]

\* (StatusCog loaded, update_status_channels returns normally)
Notifiers == {<<FALSE, TRUE>>, <<TRUE, TRUE>>, <<TRUE, FALSE>>}

\* The inputs of one check_status_task run; an input the run cannot read is
\* held at one value (a raising store call ends check_status with None, so
\* the notifier is not reached).
StatusEnvs ==
    {StatusEnv(1, Noon, "open", AllOk, "all-operational", FALSE, TRUE)}
    \cup {StatusEnv(0, LateEve, "open", AllOk, "all-operational", n[1], n[2]) :
             n \in Notifiers}
    \cup {StatusEnv(0, Noon, None, AllOk, "all-operational", FALSE, TRUE),
          StatusEnv(0, Noon, "open", FailRun, "all-operational", FALSE, TRUE),
          StatusEnv(0, Noon, "open", AllOk, "", FALSE, TRUE)}
    \cup {StatusEnv(0, Noon, "open", r, c, n[1], n[2]) :
             r \in OkRuns, c \in TickPages, n \in Notifiers}
    \cup {StatusEnv(f, Noon, "open", AllOk, c, FALSE, TRUE) :
             f \in {2, 3, 4, 5}, c \in TickPages}

IncidentEnv(f, n, s, r, c, found, sok, pok) ==
    [failAt |-> f, now |-> n, session |-> s, run |-> r, content |-> c,
     channel_found |-> found, send_ok |-> sok, pin_ok |-> pok]

\* (get_channel finds the channel, channel.send returns, message.pin returns)
Deliveries == {<<FALSE, TRUE, TRUE>>, <<TRUE, FALSE, TRUE>>,
               <<TRUE, TRUE, FALSE>>, <<TRUE, TRUE, TRUE>>}

IncidentEnvs ==
    {IncidentEnv(1, Noon, "open", AllOk, "feed-A", TRUE, TRUE, TRUE),
     IncidentEnv(0, LateEve, "open", AllOk, "feed-A", TRUE, TRUE, TRUE),
     IncidentEnv(0, Noon, None, AllOk, "feed-A", TRUE, TRUE, TRUE),
     IncidentEnv(0, Noon, "open", FailRun, "feed-A", TRUE, TRUE, TRUE),
     IncidentEnv(0, Noon, "open", AllOk, "", TRUE, TRUE, TRUE)}
    \cup {IncidentEnv(0, Noon, "open", r, c, d[1], d[2], d[3]) :
             r \in OkRuns, c \in Feeds, d \in Deliveries}
    \cup {IncidentEnv(f, Noon, "open", AllOk, c, TRUE, TRUE, TRUE) :
             f \in {2, 3}, c \in Feeds}

\* What the last handler run did.
\*   gate      "in" / "out": what check_maintenance_window answered;
\*             "not asked" when the run did not call it
\*   fetch     "none" (no session.get call was made), "ok", "empty" (an empty
\*             body), "failed" (no body after the attempts)
\*   page      the body that was parsed, or None
\*   forwarded update_status_channels was called
\*   sent      guid of the message sent to the incidents channel, or ""
\*   raised    an exception reached the except clause of the task body
\*   escaped   an exception left the task body
\*   store_raised  a call to the store raised during the run
\*   feed      incident ticks: the feed body that was parsed, or None
\*   channel_found, send_ok  incident ticks: what get_channel and
\*             channel.send would answer in this run
Tick(op, g, n, body, page, changed, fwd, sent, rsd, esc, sr) ==
    [op |-> op, gate |-> g,
     fetch |-> IF n = 0 THEN "none" ELSE IF body = None THEN "failed"
               ELSE IF body = "" THEN "empty" ELSE "ok",
     page |-> page, status_changed |-> changed, forwarded |-> fwd,
     sent |-> sent, raised |-> rsd, escaped |-> esc, store_raised |-> sr,
     feed |-> None, channel_found |-> TRUE, send_ok |-> TRUE]

NoTick(op) ==
    Tick(op, "not asked", 0, None, None, FALSE, FALSE, "", FALSE, FALSE, FALSE)

task_catches_nothing(cog) == FALSE

\* The try / except Exception around each task body: does it catch what the
\* body raises?
task_catches(cog) == TRUE

-----------------------------------------------------------------------------
(* Handlers of the status loop                                             *)

pureVars     == <<gate, req, parse, feed, api, view, history, org, proc, co>>
incidentVars == <<last_incident_guid, last_incident_id, incidentLoop, posted>>
botVars      == <<cogs, incidents_channel_id, ready>>

\* @check_status_task.before_loop
before_status_check ==
    /\ statusLoop = "waiting"
    /\ ready                                       \* wait_until_ready returned
    /\ \E failAt \in {0, 1} :
         /\ system_statuses' =
              IF failAt = 1 \/ redis.system_status = <<>> THEN system_statuses
              ELSE update_from_cache(system_statuses, redis.system_status).statuses
         /\ tick' = [NoTick("before_status_check") EXCEPT
                        !.store_raised = (failAt = 1)]
    /\ statusLoop' = "running"
    /\ UNCHANGED <<pureVars, incidentVars, botVars, redis>>

\* @tasks.loop(minutes=5) check_status_task
check_status_task ==
    /\ statusLoop = "running"
    /\ IF ~ready
       THEN /\ tick' = NoTick("check_status_task")
            /\ UNCHANGED <<system_statuses, redis, statusLoop>>
       ELSE \E env \in StatusEnvs :
            \E r \in {check_status(system_statuses, redis, env)} :
              LET called == r.ret /\ env.status_cog
                  rsd    == called /\ ~env.notify_ok
                  esc    == rsd /\ ~task_catches("status")
                  \* hgetall raised, or one of the calls after a change did
                  sr     == env.failAt = 1 \/ (r.status_changed /\ ~r.ret)
              IN  /\ Len(r.store.status_history) <= MaxChanges
                  /\ system_statuses' = r.statuses
                  /\ redis' = r.store
                  /\ statusLoop' = IF esc THEN "failing" ELSE "running"
                  /\ tick' = Tick("check_status_task", r.gate, r.attempts, r.body,
                                  r.page, r.status_changed, called, "", rsd, esc,
                                  sr)
    /\ UNCHANGED <<pureVars, incidentVars, botVars>>

\* RSIStatusMonitorCog.cog_unload: check_status_task.cancel()
status_cog_unload ==
    /\ statusLoop \in {"waiting", "running"}
    /\ statusLoop' = "cancelled"
    /\ tick' = NoTick("cog_unload")
    /\ UNCHANGED <<pureVars, incidentVars, botVars, system_statuses, redis>>

flush_status_skipped(store, st) == store

\* Line 224: await self.bot.redis.hmset('system_status', self.system_statuses)
flush_status(store, st) == [store EXCEPT !.system_status = hmset(@, st)]

\* @check_status_task.after_loop; the hmset raises when the store is down.
after_status_check ==
    /\ statusLoop \in {"cancelled", "failing"}
    /\ \E up \in BOOLEAN :
         /\ redis' = IF up THEN flush_status(redis, system_statuses) ELSE redis
         /\ tick' = [NoTick("after_status_check") EXCEPT !.store_raised = ~up]
    /\ statusLoop' = "stopped"
    /\ UNCHANGED <<pureVars, incidentVars, botVars, system_statuses>>

-----------------------------------------------------------------------------
(* Handlers of the incident loop                                           *)

statusVars == <<system_statuses, statusLoop>>

\* The last-seen id of whichever incident cog is loaded.
LastSeen == IF "IncidentsCog" \in cogs THEN last_incident_id ELSE last_incident_guid

SetLastSeen(v) ==
    IF "IncidentsCog" \in cogs
    THEN last_incident_id' = v /\ UNCHANGED last_incident_guid
    ELSE last_incident_guid' = v /\ UNCHANGED last_incident_id

\* @check_incidents_task.before_loop / @check_incidents.before_loop
before_incidents_check ==
    /\ incidentLoop = "waiting"
    /\ ready
    /\ \E failAt \in {0, 1} :
         /\ IF failAt = 1                    \* redis.get raises, nothing catches it
            THEN incidentLoop' = "failing" /\ SetLastSeen(LastSeen)
            ELSE incidentLoop' = "running" /\ SetLastSeen(redis.last_incident_id)
         /\ tick' = [NoTick("before_incidents_check") EXCEPT
                        !.store_raised = (failAt = 1)]
    /\ UNCHANGED <<pureVars, statusVars, botVars, redis, posted>>

\* The body shared by the two incident tasks, after the is_ready / channel
\* id test.
IncidentTick(op, r, env, pins, cog) ==
    \E n \in {notify_incident(r, LastSeen, env, pins)} :
    LET esc == n.raised /\ ~task_catches(cog)
        \* redis.get raised, or redis.set of latest_incident did (reached by
        \* IncidentsCog once the incident is built), or redis.set of
        \* last_incident_id did (reached once the message is out)
        sr  == \/ env.failAt = 1 /\ r.gate # "in"
               \/ /\ env.failAt = 2
                  /\ r.attempts > 0
                  /\ r.body # None
                  /\ FeedEntries(r.body) # <<>>
                  /\ \/ cog = "legacy"
                     \/ ~json_dumps_raises(Incident(FeedEntries(r.body)[1]))
               \/ env.failAt = 3 /\ n.sent # "" /\ n.raised
    IN  /\ n.sent # "" => posted[n.sent] < MaxPosts
        /\ SetLastSeen(n.last)
        /\ redis' = n.store
        /\ posted' = IF n.sent = "" THEN posted
                     ELSE [posted EXCEPT ![n.sent] = @ + 1]
        /\ incidentLoop' = IF esc THEN "failing" ELSE "running"
        /\ tick' = [Tick(op, r.gate, r.attempts, r.body, None, FALSE, FALSE,
                         n.sent, n.raised, esc, sr) EXCEPT
                        !.feed = IF r.attempts > 0 /\ r.body # None /\ r.body # ""
                                 THEN r.body ELSE None,
                        !.channel_found = env.channel_found,
                        !.send_ok = env.send_ok]

\* RSIIncidentMonitorCog: @tasks.loop(minutes=5) check_incidents_task
check_incidents_task ==
    /\ incidentLoop = "running"
    /\ "RSIIncidentMonitorCog" \in cogs
    /\ IF ~ready \/ incidents_channel_id = None
       THEN /\ tick' = NoTick("check_incidents_task")
            /\ UNCHANGED <<last_incident_guid, last_incident_id, redis, posted,
                           incidentLoop>>
       ELSE \E env \in IncidentEnvs :
            \E r \in {get_latest_incident(redis, env)} :
              IncidentTick("check_incidents_task", r, env, TRUE, "incident")
    /\ UNCHANGED <<pureVars, statusVars, botVars>>

\* IncidentsCog: @tasks.loop(minutes=5) check_incidents
check_incidents ==
    /\ incidentLoop = "running"
    /\ "IncidentsCog" \in cogs
    /\ IF ~ready \/ incidents_channel_id = None
       THEN /\ tick' = NoTick("check_incidents")
            /\ UNCHANGED <<last_incident_guid, last_incident_id, redis, posted,
                           incidentLoop>>
       ELSE \E env \in IncidentEnvs :
            \E r \in {legacy_get_latest_incident(redis, env)} :
              IncidentTick("check_incidents", r, env, FALSE, "legacy")
    /\ UNCHANGED <<pureVars, statusVars, botVars>>

\* cog_unload of the incident cog: the task's cancel()
incident_cog_unload ==
    /\ incidentLoop \in {"waiting", "running"}
    /\ incidentLoop' = "cancelled"
    /\ tick' = NoTick("cog_unload")
    /\ UNCHANGED <<pureVars, statusVars, botVars, last_incident_guid,
                   last_incident_id, redis, posted>>

\* @check_incidents_task.after_loop / @check_incidents.after_loop
after_incidents_check ==
    /\ incidentLoop \in {"cancelled", "failing"}
    /\ \E up \in BOOLEAN :
         /\ redis' = IF LastSeen # None /\ up
                     THEN [redis EXCEPT !.last_incident_id = LastSeen]
                     ELSE redis
         /\ tick' = [NoTick("after_incidents_check")
                        EXCEPT !.store_raised = LastSeen # None /\ ~up]
    /\ incidentLoop' = "stopped"
    /\ UNCHANGED <<pureVars, statusVars, botVars, last_incident_guid,
                   last_incident_id, posted>>

-----------------------------------------------------------------------------
(* The bot and its surroundings                                            *)

\* DraXonAIBot.on_ready: the connection is up.
on_ready ==
    /\ ~ready
    /\ ready' = TRUE
    /\ UNCHANGED <<pureVars, statusVars, incidentVars, cogs,
                   incidents_channel_id, redis, tick>>

\* The gateway connection drops: is_ready() is false until it is back.
Disconnect ==
    /\ ready
    /\ ready' = FALSE
    /\ UNCHANGED <<pureVars, statusVars, incidentVars, cogs,
                   incidents_channel_id, redis, tick>>

\* ChannelSelectView.confirm_button, as far as the incidents channel goes.
confirm_button ==
    /\ ready
    /\ incidentLoop # "absent"         \* only the incident tasks read the id
    /\ \E up \in BOOLEAN :
         IF up
         THEN /\ redis' = [redis EXCEPT !.channel_ids = <<"42">>]
              /\ incidents_channel_id' = "42"
         ELSE UNCHANGED <<redis, incidents_channel_id>>   \* hmset raises
    /\ UNCHANGED <<pureVars, statusVars, incidentVars, cogs, ready, tick>>

\* DraXonAIBot._load_channel_ids: the keys looked up are bytes (b'incidents'),
\* the keys of a decoded reply are str.
load_channel_ids(store) ==
    IF store.channel_ids = <<>> \/ decode_responses THEN None
    ELSE store.channel_ids[1]

\* Time passes: a key with an expiry is gone.
Expire ==
    /\ \E k \in {"system_status", "latest_incident"} :
         /\ redis[k] # <<>>
         /\ redis[k][1].ttl = "ttl"
         /\ redis' = [redis EXCEPT ![k] = <<>>]
    /\ UNCHANGED <<pureVars, statusVars, incidentVars, botVars, tick>>

LoopOf(cog, loaded) == IF cog \in loaded THEN "waiting" ELSE "absent"

\* The process ends (with or without its loops stopped) and is started again:
\* DraXonAIBot.__init__, setup_hook and the cogs' __init__.
Restart ==
    /\ system_statuses' = InitialStatuses
    /\ last_incident_guid' = None
    /\ last_incident_id' = None
    /\ incidents_channel_id' = load_channel_ids(redis)
    /\ ready' = FALSE
    /\ statusLoop' = LoopOf("RSIStatusMonitorCog", cogs)
    /\ incidentLoop' = IF cogs \cap {"RSIIncidentMonitorCog", "IncidentsCog"} = {}
                       THEN "absent" ELSE "waiting"
    /\ tick' = NoTick("Restart")
    /\ UNCHANGED <<pureVars, cogs, redis, posted>>

\* The cogs loaded. The status loop and the incident loop share no attribute
\* and no key of the store, so each is followed on its own: the two monitors
\* of setup_hook's list, and the older IncidentsCog.
Configs == { {"RSIStatusMonitorCog"}, {"RSIIncidentMonitorCog"}, {"IncidentsCog"} }

NoGate == [now |-> 0, start |-> MAINTENANCE_START,
           duration |-> MAINTENANCE_DURATION, done |-> FALSE, result |-> FALSE]
NoReq  == [cog |-> "status", session |-> None, run |-> AllOk, content |-> "",
           done |-> FALSE, result |-> NoRequest]
\* The coroutines that run check_status: the periodic task and a slash
\* command (/check-status, /force-check).
Who == {"task", "command"}

\* pc is the await the coroutine is suspended at ("idle": not running);
\* mapping is the argument of the store call it has issued.
Coroutine(pc, mapping) == [pc |-> pc, mapping |-> mapping]

NoCo == [w \in Who |-> Coroutine("idle", InitialStatuses)]

NoProc == Main("exited", "raises", "normal", {}, {}, << >>)

NoOrg == [up |-> FALSE, listed |-> FALSE, pages |-> << >>, done |-> FALSE,
          result |-> OrgResult(0, "", 0, FALSE)]

NoHistory == [list |-> << >>, writes |-> 0, raised |-> FALSE]

NoView == ChannelSelectView

NoApi == [session |-> None, up |-> FALSE, cached |-> FALSE,
          run |-> [i \in 1..API_ATTEMPTS |-> Answer("error", NoHeader)],
          done |-> FALSE, result |-> ApiResult(None, 0, << >>, FALSE)]

NoFeed == [cog |-> "legacy", entries |-> << >>, done |-> FALSE,
           result |-> << >>]
NoParse == [content |-> "", statuses |-> InitialStatuses, done |-> FALSE,
            result |-> ParseResult(InitialStatuses, FALSE)]

InitProgram(loaded, lastId) ==
    /\ cogs = loaded
    /\ system_statuses = InitialStatuses
    /\ last_incident_guid = None
    /\ last_incident_id = None
    /\ incidents_channel_id = None
    /\ redis = Store(<<>>, <<>>, <<>>, lastId, <<>>)
    /\ ready = FALSE
    /\ statusLoop = LoopOf("RSIStatusMonitorCog", loaded)
    /\ incidentLoop = IF loaded \cap {"RSIIncidentMonitorCog", "IncidentsCog"} = {}
                      THEN "absent" ELSE "waiting"
    /\ posted = [g \in Guids |-> 0]
    /\ tick = NoTick("init")
    /\ co = NoCo

Init ==
    /\ gate = NoGate
    /\ req = NoReq
    /\ parse = NoParse
    /\ feed = NoFeed
    /\ api = NoApi
    /\ view = NoView
    /\ history = NoHistory
    /\ org = NoOrg
    /\ proc = NoProc
    /\ \E loaded \in Configs, lastId \in {None, "A"} : InitProgram(loaded, lastId)

Next ==
    \/ on_ready
    \/ Disconnect
    \/ confirm_button
    \/ Expire
    \/ Restart
    \/ before_status_check
    \/ check_status_task
    \/ status_cog_unload
    \/ after_status_check
    \/ before_incidents_check
    \/ check_incidents_task
    \/ check_incidents
    \/ incident_cog_unload
    \/ after_incidents_check

Spec == Init /\ [][Next]_vars

-----------------------------------------------------------------------------
(* check_maintenance_window, make_request and the parser as pure functions *)

programVars == <<system_statuses, last_incident_guid, last_incident_id, cogs,
                 incidents_channel_id, redis, ready, statusLoop, incidentLoop,
                 posted, tick, co>>

MaxDuration == 25      \* durations tried, in hours

Starts == {HHMM(22, 0), HHMM(0, 0), HHMM(21, 0), HHMM(10, 30), HHMM(23, 59),
           HHMM(24, 0)}

\* Clock readings tried: around midnight, around the configured window and
\* around the other starts.
Nows == {0, 1, 30 * Minute, Hour - 1, Hour, Hour + 1, 2 * Hour,
         10 * Hour + 30 * Minute, 12 * Hour, 13 * Hour + 30 * Minute,
         21 * Hour, 22 * Hour - Minute, 22 * Hour - 1, 22 * Hour, 22 * Hour + 1,
         23 * Hour + 30 * Minute, 23 * Hour + 59 * Minute, Day - 1}

InitWindow ==
    /\ gate \in [now : Nows, start : Starts, duration : 0..MaxDuration,
                  done : {FALSE}, result : {FALSE}]
    /\ req = NoReq
    /\ parse = NoParse
    /\ feed = NoFeed
    /\ api = NoApi
    /\ view = NoView
    /\ history = NoHistory
    /\ org = NoOrg
    /\ proc = NoProc
    /\ InitProgram({"IncidentsCog"}, None)

ApplyGate ==
    /\ ~gate.done
    /\ gate' = [gate EXCEPT !.done = TRUE,
                            !.result = check_maintenance_window(gate.now, gate.start,
                                                                gate.duration)]
    /\ UNCHANGED <<req, parse, feed, api, view, history, org, proc, programVars>>

SpecWindow == InitWindow /\ [][ApplyGate]_vars

InitFetch ==
    /\ gate = NoGate
    /\ parse = NoParse
    /\ feed = NoFeed
    /\ api = NoApi
    /\ view = NoView
    /\ history = NoHistory
    /\ org = NoOrg
    /\ proc = NoProc
    /\ req \in [cog : {"status", "incident"}, session : {None, "open"},
                 run : [1..max_retries -> Outcomes], content : {"", "platform-major"},
                 done : {FALSE}, result : {NoRequest}]
    /\ InitProgram({"IncidentsCog"}, None)

ApplyRequest ==
    /\ ~req.done
    /\ req' = [req EXCEPT !.done = TRUE,
                          !.result = make_request(req.cog, req.session, req.run,
                                                  req.content)]
    /\ UNCHANGED <<gate, parse, feed, api, view, history, org, proc, programVars>>

SpecFetch == InitFetch /\ [][ApplyRequest]_vars

\* The states a component can be in when a page is parsed.
SnapshotValues == {"operational", "major", "maintenance"}

InitParse ==
    /\ gate = NoGate
    /\ req = NoReq
    /\ parse \in [content : Pages, statuses : [Components -> SnapshotValues],
                   done : {FALSE}, result : {ParseResult(InitialStatuses, FALSE)}]
    /\ feed = NoFeed
    /\ api = NoApi
    /\ view = NoView
    /\ history = NoHistory
    /\ org = NoOrg
    /\ proc = NoProc
    /\ InitProgram({"RSIStatusMonitorCog"}, None)

ApplyParse ==
    /\ ~parse.done
    /\ parse' = [parse EXCEPT !.done = TRUE,
                              !.result = parse_status_page(parse.content,
                                                           parse.statuses)]
    /\ UNCHANGED <<gate, req, feed, api, view, history, org, proc, programVars>>

SpecParse == InitParse /\ [][ApplyParse]_vars

\* Tags a feed entry can carry: component names and status keywords.
FeedTags == {"platform", "launcher", "major", "degraded"}

MaxTags == 3

RECURSIVE TagLists(_)
TagLists(n) ==
    IF n = 0 THEN {<< >>}
    ELSE TagLists(n - 1) \cup
         {Append(l, t) : l \in {x \in TagLists(n - 1) : Len(x) = n - 1},
                         t \in FeedTags}

\* Parsed feeds: no entry, one entry, or an entry followed by an older one.
ParsedFeeds ==
    {<< >>} \cup
    UNION {{<<FeedEntry(g, "Login issues", tags)>>,
            <<FeedEntry(g, "Login issues", tags), EntryA>>} :
           g \in {"B", None}, tags \in TagLists(MaxTags)}

InitFeed ==
    /\ gate = NoGate
    /\ req = NoReq
    /\ parse = NoParse
    /\ api = NoApi
    /\ view = NoView
    /\ history = NoHistory
    /\ org = NoOrg
    /\ proc = NoProc
    /\ feed \in [cog : {"incident", "legacy"}, entries : ParsedFeeds,
                  done : {FALSE}, result : {<< >>}]
    /\ InitProgram({"IncidentsCog"}, None)

ApplyFeed ==
    /\ ~feed.done
    /\ feed' = [feed EXCEPT !.done = TRUE,
                            !.result = latest_entry_incident(feed.cog,
                                                             feed.entries)]
    /\ UNCHANGED <<gate, req, parse, api, view, history, org, proc, programVars>>

SpecFeed == InitFeed /\ [][ApplyFeed]_vars

InitApi ==
    /\ gate = NoGate
    /\ req = NoReq
    /\ parse = NoParse
    /\ feed = NoFeed
    /\ view = NoView
    /\ history = NoHistory
    /\ org = NoOrg
    /\ proc = NoProc
    /\ api \in [session : {None, "open"}, up : BOOLEAN, cached : BOOLEAN,
                 run : [1..API_ATTEMPTS -> ApiAnswers], done : {FALSE},
                 result : {ApiResult(None, 0, << >>, FALSE)}]
    /\ InitProgram({"IncidentsCog"}, None)

ApplyApiRequest ==
    /\ ~api.done
    /\ api' = [api EXCEPT !.done = TRUE,
                          !.result = make_api_request(api.session, api.up,
                                                      api.cached, api.run)]
    /\ UNCHANGED <<gate, req, parse, feed, view, history, org, proc, programVars>>

SpecApi == InitApi /\ [][ApplyApiRequest]_vars

InitMain ==
    /\ gate = NoGate
    /\ req = NoReq
    /\ parse = NoParse
    /\ feed = NoFeed
    /\ api = NoApi
    /\ view = NoView
    /\ history = NoHistory
    /\ org = NoOrg
    /\ proc \in {Main("start", i, r, {}, {}, << >>) :
                    i \in InitOutcomes, r \in RunOutcomes}
    /\ InitProgram({"IncidentsCog"}, None)

mainOther == <<gate, req, parse, feed, api, view, history, org, programVars>>

\* main, line 114; an exception goes to the outer except and finally.
check_required_dirs ==
    /\ proc.pc = "start"
    /\ proc' = [proc EXCEPT !.pc = IF proc.init = "dirs raise"
                                   THEN "outer finally" ELSE "settings"]
    /\ UNCHANGED mainOther

\* main, lines 117-122
load_settings ==
    /\ proc.pc = "settings"
    /\ proc' = [proc EXCEPT !.pc = IF proc.init = "settings raise"
                                   THEN "outer finally" ELSE "services"]
    /\ UNCHANGED mainOther

\* main, lines 125-129, and initialize_services
initialize_services ==
    /\ proc.pc = "services"
    /\ proc' = CASE proc.init = "raises" ->
                      [proc EXCEPT !.pc = "outer finally"]
                 [] proc.init = "redis raises" ->
                      [proc EXCEPT !.pc = "outer finally",
                                   !.created = {"db_pool"}]
                 [] OTHER ->
                      [proc EXCEPT !.pc = "construct",
                                   !.created = {"db_pool", "redis_pool"},
                                   !.locals = {"db_pool", "redis_pool"}]
    /\ UNCHANGED mainOther

\* main, lines 131-142
create_bot ==
    /\ proc.pc = "construct"
    /\ proc' = [proc EXCEPT !.pc = "run",
                            !.created = @ \cup {"bot"},
                            !.locals = @ \cup {"bot"}]
    /\ UNCHANGED mainOther

\* main, lines 144-155: the bot runs until start() returns or raises; on
\* the way out of `async with` DraXonAIBot.close is called (by the shutdown
\* that made start() return, or by Client.__aexit__); it raises when its
\* redis.set does.
\* KeyboardInterrupt is swallowed (150-151), any other exception
\* is logged and raised again (153-155), a normal return falls through: all
\* three enter the inner finally, and then the outer one.
run_bot ==
    /\ proc.pc = "run"
    /\ \E ok \in BOOLEAN :
         proc' = [proc EXCEPT !.pc = "inner finally",
                             !.closes = Append(@, Close("bot", ok))]
    /\ UNCHANGED mainOther

\* cleanup_services, called from the inner finally (line 160) and from the
\* outer finally (lines 168-169, if any of the three is set).
cleanup_services ==
    /\ proc.pc \in {"inner finally", "outer finally"}
    /\ proc.pc = "outer finally" => proc.locals # {}
    /\ \E fails \in {"none"} \cup Services :
         proc' = [proc EXCEPT
                    !.pc = IF @ = "inner finally" THEN "outer finally"
                           ELSE "exited",
                    !.closes = @ \o cleanup_closes(proc.locals, fails)]
    /\ UNCHANGED mainOther

\* The outer finally with nothing set: main ends.
exit_main ==
    /\ proc.pc = "outer finally"
    /\ proc.locals = {}
    /\ proc' = [proc EXCEPT !.pc = "exited"]
    /\ UNCHANGED mainOther

NextMain ==
    \/ check_required_dirs
    \/ load_settings
    \/ initialize_services
    \/ exit_main
    \/ create_bot
    \/ run_bot
    \/ cleanup_services

SpecMain == InitMain /\ [][NextMain]_vars

\* Pages of the member list the API is asked for.
MaxPages == 3

InitMembers ==
    /\ gate = NoGate
    /\ req = NoReq
    /\ parse = NoParse
    /\ feed = NoFeed
    /\ api = NoApi
    /\ view = NoView
    /\ history = NoHistory
    /\ org \in [up : BOOLEAN, listed : BOOLEAN,
                 pages : [1..MaxPages -> PageAnswers], done : {FALSE},
                 result : {OrgResult(0, "", 0, FALSE)}]
    /\ proc = NoProc
    /\ InitProgram({"IncidentsCog"}, None)

ApplyOrgMembers ==
    /\ ~org.done
    /\ org' = [org EXCEPT !.done = TRUE,
                          !.result = get_org_members(org.up, org.listed,
                                                     MEMBERS_PER_PAGE, org.pages)]
    /\ UNCHANGED <<gate, req, parse, feed, api, view, history, proc, programVars>>

SpecMembers == InitMembers /\ [][ApplyOrgMembers]_vars

\* Changes of the status page the history is followed over.
MaxHistory == 103

PlatformMajor == [InitialStatuses EXCEPT !["platform"] = "major"]

InitHistory ==
    /\ gate = NoGate
    /\ req = NoReq
    /\ parse = NoParse
    /\ feed = NoFeed
    /\ api = NoApi
    /\ view = NoView
    /\ history = NoHistory
    /\ org = NoOrg
    /\ proc = NoProc
    /\ InitProgram({"RSIStatusMonitorCog"}, None)

\* A tick that detected a change reaches line 150: the snapshot goes from
\* operational to major and back; the entry carries the time of the write
\* (here the number of the write).  ltrim may raise after lpush went
\* through.
log_status_change ==
    /\ history.writes < MaxHistory
    /\ \E failAt \in {0, 5} :
       \E w \in {history_writes(history.list,
                                history_entry(history.writes + 1,
                                              IF history.writes % 2 = 0
                                              THEN PlatformMajor
                                              ELSE InitialStatuses),
                                failAt)} :
         history' = [list |-> w.list, writes |-> history.writes + 1,
                     raised |-> w.raised]
    /\ UNCHANGED <<gate, req, parse, feed, api, view, org, proc, programVars>>

SpecHistory == InitHistory /\ [][log_status_change]_vars

\* /setup sends a fresh view; the user then works its components.  A
\* disabled component takes no interaction.
InitSetup ==
    /\ gate = NoGate
    /\ req = NoReq
    /\ parse = NoParse
    /\ feed = NoFeed
    /\ api = NoApi
    /\ view = ChannelSelectView
    /\ history = NoHistory
    /\ org = NoOrg
    /\ proc = NoProc
    /\ InitProgram({"IncidentsCog"}, None)

setupOther == <<gate, req, parse, feed, api, history, org, proc, programVars>>

select_callback ==
    /\ ~view.finished
    /\ \E k \in ChannelKinds, ch \in TextChannels :
         /\ ~view.select_disabled[k]
         /\ view' = channel_select(view, k, ch)
    /\ UNCHANGED setupOther

reset_button ==
    /\ ~view.finished
    /\ ~view.reset_disabled
    /\ view' = reset_selections(view)
    /\ UNCHANGED setupOther

setup_confirm_button ==
    /\ ~view.finished
    /\ ~view.confirm_disabled
    /\ \E up \in BOOLEAN : view' = confirm_setup(view, up)
    /\ UNCHANGED setupOther

on_timeout ==
    /\ ~view.finished
    /\ view' = timed_out(view)
    /\ UNCHANGED setupOther

NextSetup ==
    \/ select_callback
    \/ reset_button
    \/ setup_confirm_button
    \/ on_timeout

SpecSetup == InitSetup /\ [][NextSetup]_vars

-----------------------------------------------------------------------------
(* check_status step by step (SpecAwait)                                   *)
(*                                                                         *)
(* A coroutine runs without interruption from one await to the next; at    *)
(* an await another coroutine may run.  check_status awaits the store and  *)
(* the HTTP request; the parse and the update of self.system_statuses run  *)
(* between awaits.  A store call is issued with its arguments built at the *)
(* call and takes effect in the store at its step; two pending calls of    *)
(* different coroutines take effect in either order.  The clock is outside *)
(* the maintenance window.                                                 *)

awaitVars == <<gate, req, parse, feed, api, view, history, org, proc, incidentVars, botVars, tick>>

\* The pages served while two checks overlap.
AwaitPages == {"all-operational", "platform-major", "two-platform",
               "custom-status"}

\* Where check_status goes when it returns the dict: the task then awaits
\* update_status_channels, a command answers the interaction.
Returned(w) == IF w = "task" THEN "update_status_channels" ELSE "idle"

\* check_status is called: by check_status_task when the loop fires, by
\* check_status_command / force_check while the cog is loaded.
call_check_status(w) ==
    /\ co[w].pc = "idle"
    /\ ready
    /\ IF w = "task" THEN statusLoop = "running"
       ELSE statusLoop \in {"waiting", "running"}
    /\ co' = [co EXCEPT ![w].pc = "hgetall"]
    /\ UNCHANGED <<awaitVars, system_statuses, redis, statusLoop>>

\* Lines 91-101: the reply of hgetall, then the maintenance test.
await_hgetall(w) ==
    /\ co[w].pc = "hgetall"
    /\ IF redis.system_status # <<>>
       THEN \E u \in {update_from_cache(system_statuses, redis.system_status)} :
               /\ system_statuses' = u.statuses
               /\ co' = [co EXCEPT ![w].pc = IF u.raised THEN "idle"
                                             ELSE Returned(w)]
       ELSE IF check_maintenance_window(Noon, MAINTENANCE_START,
                                        MAINTENANCE_DURATION)
       THEN /\ system_statuses' = [c \in Components |-> "maintenance"]
            /\ co' = [co EXCEPT ![w].pc = Returned(w)]
       ELSE /\ co' = [co EXCEPT ![w].pc = "make_request"]
            /\ UNCHANGED system_statuses
    /\ UNCHANGED <<awaitVars, redis, statusLoop>>

\* Lines 104-142: make_request returns; without a body check_status returns
\* None, else the page is parsed into self.system_statuses and, after a
\* change, hmset is called with the dict as it is now.
await_make_request(w) ==
    /\ co[w].pc = "make_request"
    /\ \E run \in OkRuns \cup {FailRun}, content \in AwaitPages :
       \E rq \in {make_request("status", "open", run, content)} :
         IF rq.body = None
         THEN /\ co' = [co EXCEPT ![w].pc = "idle"]
              /\ UNCHANGED system_statuses
         ELSE \E p \in {parse_status_page(rq.body, system_statuses)} :
              /\ system_statuses' = p.statuses
              /\ co' = [co EXCEPT ![w] =
                           IF p.status_changed
                           THEN Coroutine("hmset", p.statuses)
                           ELSE Coroutine(Returned(w), @.mapping)]
    /\ UNCHANGED <<awaitVars, redis, statusLoop>>

\* Lines 139-142: the HMSET takes effect.
await_hmset(w) ==
    /\ co[w].pc = "hmset"
    /\ redis' = [redis EXCEPT !.system_status = hmset(@, co[w].mapping)]
    /\ co' = [co EXCEPT ![w].pc = "expire"]
    /\ UNCHANGED <<awaitVars, system_statuses, statusLoop>>

\* Lines 143-154: the EXPIRE takes effect; lpush is then called with
\* str(self.system_statuses) as it is now.
await_expire(w) ==
    /\ co[w].pc = "expire"
    /\ redis' = [redis EXCEPT !.system_status = expire(@, STATUS_TTL)]
    /\ co' = [co EXCEPT ![w] = Coroutine("lpush", system_statuses)]
    /\ UNCHANGED <<awaitVars, system_statuses, statusLoop>>

\* Lines 151-154: the LPUSH takes effect.
await_lpush(w) ==
    /\ co[w].pc = "lpush"
    /\ Len(redis.status_history) < MaxChanges
    /\ redis' = [redis EXCEPT !.status_history = lpush(@, co[w].mapping)]
    /\ co' = [co EXCEPT ![w].pc = "ltrim"]
    /\ UNCHANGED <<awaitVars, system_statuses, statusLoop>>

\* Lines 155-157: the LTRIM takes effect and check_status returns the dict.
await_ltrim(w) ==
    /\ co[w].pc = "ltrim"
    /\ redis' = [redis EXCEPT !.status_history = ltrim(@, 0, HISTORY_STOP)]
    /\ co' = [co EXCEPT ![w].pc = Returned(w)]
    /\ UNCHANGED <<awaitVars, system_statuses, statusLoop>>

\* Lines 200-203: update_status_channels returns (or raises into the except
\* of the task); the tick is over.
await_update_status_channels ==
    /\ co["task"].pc = "update_status_channels"
    /\ co' = [co EXCEPT !["task"].pc = "idle"]
    /\ UNCHANGED <<awaitVars, system_statuses, redis, statusLoop>>

\* cog_unload: check_status_task.cancel().  Loop.cancel cancels the running
\* asyncio task: a tick suspended at an await gets CancelledError there,
\* which no `except Exception` catches.  An HMSET already issued may or may
\* not have reached the store.
cancel_check_status_task ==
    /\ statusLoop \in {"waiting", "running"}
    /\ statusLoop' = "cancelled"
    /\ \E sent \in BOOLEAN :
         /\ redis' = IF co["task"].pc = "hmset" /\ sent
                     THEN [redis EXCEPT !.system_status =
                                           hmset(@, co["task"].mapping)]
                     ELSE redis
         /\ co' = [co EXCEPT !["task"].pc =
                                 IF @ = "idle" THEN "idle" ELSE "interrupted"]
    /\ UNCHANGED <<awaitVars, system_statuses>>

InitAwait ==
    /\ gate = NoGate
    /\ req = NoReq
    /\ parse = NoParse
    /\ feed = NoFeed
    /\ api = NoApi
    /\ view = NoView
    /\ history = NoHistory
    /\ org = NoOrg
    /\ proc = NoProc
    /\ InitProgram({"RSIStatusMonitorCog"}, None)

NextAwait ==
    \/ on_ready
    \/ before_status_check
    \/ \E w \in Who : call_check_status(w)
    \/ \E w \in Who : await_hgetall(w)
    \/ \E w \in Who : await_make_request(w)
    \/ \E w \in Who : await_hmset(w)
    \/ \E w \in Who : await_expire(w)
    \/ \E w \in Who : await_lpush(w)
    \/ \E w \in Who : await_ltrim(w)
    \/ await_update_status_channels
    \/ cancel_check_status_task
    \/ after_status_check
    \/ Expire

SpecAwait == InitAwait /\ [][NextAwait]_vars

-----------------------------------------------------------------------------
(* Properties of the maintenance-window gate (SpecWindow)                  *)

\* The interval [start, start + duration] taken modulo 24 hours, both ends
\* included: the time of day elapsed since the start is at most the duration,
\* itself reduced modulo 24 hours (a window of exactly 24 hours ends at the
\* time of day at which it starts).
InDailyWindow(now, start, duration) ==
    ((now + Day - start) % Day) <= ((duration * Hour) % Day)

\* The worked example of the gate: start 22:00, duration 3 hours.
GateExample(now, expected) ==
    (/\ gate.done
     /\ gate.start = HHMM(22, 0)
     /\ gate.duration = 3
     /\ gate.now = now) => (gate.result = expected)

GateExamples ==
    /\ GateExample(23 * Hour + 30 * Minute, TRUE)
    /\ GateExample(30 * Minute, TRUE)
    /\ GateExample(2 * Hour, FALSE)
    /\ GateExample(22 * Hour - Minute, FALSE)

\* C4: for every start HH:MM and every duration of whole hours,
\* check_maintenance_window answers true exactly when the time of day lies in
\* [start, start + duration] taken modulo 24 hours, boundaries included;
\* with 22:00 and 3 hours it is true at 23:30 and 00:30 and false at 02:00
\* and 21:59.
C4_DailyWindow ==
    /\ (gate.done /\ strptime(gate.start) >= 0)
          => (gate.result <=> InDailyWindow(gate.now, strptime(gate.start),
                                            gate.duration))
    /\ GateExamples

\* The gate has answered true after midnight for the window that began at
\* 22:00 the evening before.
C4_Witness ==
    /\ gate.done
    /\ gate.start = HHMM(22, 0)
    /\ gate.duration = 3
    /\ gate.now = 30 * Minute
    /\ gate.result = TRUE

-----------------------------------------------------------------------------
(* Properties of make_request (SpecFetch)                                  *)

\* The outcomes make_request meets: those of the run, or an AttributeError at
\* every attempt when the incident cog has no session.
Met(r) ==
    IF r.session = None THEN [i \in 1..max_retries |-> "error"] ELSE r.run

\* The attempts of a run that answered 200 and delivered their body.
Answered(run) == {i \in 1..max_retries : run[i] = "ok"}

\* The first of them, or 0 when no attempt answered.
FirstAnswer(run) ==
    IF Answered(run) = {} THEN 0
    ELSE CHOOSE i \in Answered(run) : \A j \in Answered(run) : i <= j

\* C6: make_request makes at most 3 attempts; it returns the body at the
\* first attempt that answers 200 (status 200 and the body read) and makes no
\* further attempt; any other status, a timeout or any other error is a
\* failed attempt; after 3 failed attempts it returns None; no exception
\* leaves make_request.  Without a session the status cog returns None
\* without any attempt.
C6_BoundedRetries ==
    req.done =>
       /\ ~req.result.raised
       /\ req.result.attempts <= 3
       /\ IF req.cog = "status" /\ req.session = None
          THEN req.result.attempts = 0 /\ req.result.body = None
          ELSE IF FirstAnswer(Met(req)) = 0
          THEN req.result.attempts = 3 /\ req.result.body = None
          ELSE /\ req.result.attempts = FirstAnswer(Met(req))
               /\ req.result.body = req.content

\* A timeout, then a transport error, then an answer: three attempts and the
\* body of the third.
C6_Witness ==
    /\ req.done
    /\ req.session = "open"
    /\ req.run = <<"timeout", "error", "ok">>
    /\ req.content = "platform-major"
    /\ req.result.attempts = 3
    /\ req.result.body = "platform-major"

\* The attempts of a finished request that failed.
FailedAttempts(r) ==
    IF r.result.body = None THEN r.result.attempts ELSE r.result.attempts - 1

\* C7 as stated: over a run in which all 3 attempts fail, the waits between
\* attempts are 1 s, 2 s and 4 s, in that order.
C7_ThreeWaits ==
    (req.done /\ FailedAttempts(req) = 3) => req.result.waits = <<1, 2, 4>>

\* C7, amended: make_request waits 2^k seconds after failed attempt k
\* (counted from 0) only when another attempt follows; over a run in which
\* all 3 attempts fail the waits are 1 s and 2 s, in that order, and no wait
\* follows the last attempt.
C7_WaitsBetweenAttempts ==
    req.done =>
       /\ (FailedAttempts(req) = 3 => req.result.waits = <<1, 2>>)
       /\ (FailedAttempts(req) = 2 => req.result.waits = <<1, 2>>)
       /\ (FailedAttempts(req) = 1 => req.result.waits = <<1>>)
       /\ (FailedAttempts(req) = 0 => req.result.waits = <<>>)

\* Three failed attempts have been made with the session open.
C7_Witness ==
    /\ req.done
    /\ req.session = "open"
    /\ req.run = <<"http", "timeout", "error">>
    /\ req.result.attempts = 3
    /\ req.result.body = None
    /\ req.result.waits = <<1, 2>>

-----------------------------------------------------------------------------
(* Properties of the polling loops (Spec)                                  *)

\* A step that is one run of a polling task.
StatusTickStep   == check_status_task
IncidentTickStep == check_incidents_task \/ check_incidents

\* What a tick may leave behind: the snapshot, the last-seen ids and the
\* store.
Held == <<system_statuses, last_incident_guid, last_incident_id, redis>>

\* C1: over any sequence of incident-loop ticks and across restarts that
\* reload the persisted last_incident_id, each distinct incident id is
\* judged novel, and so posted, at most once.
C1_PostedAtMostOnce == \A g \in Guids : posted[g] <= 1

\* C2: on a tick where the maintenance-window gate reports in-window, the
\* loop issues no HTTP fetch, leaves the snapshot, the last-seen incident id
\* and the store unchanged and forwards nothing to the notifier; for the
\* status loop and for the incident loop.
C2_InWindowTickIdle ==
    [][((StatusTickStep \/ IncidentTickStep) /\ tick'.gate = "in")
          => (/\ tick'.fetch = "none"
              /\ Held' = Held
              /\ ~tick'.forwarded
              /\ tick'.sent = "")]_vars

\* C3: the status loop forwards the snapshot to StatusCog only on ticks in
\* which at least one component status changed, so a page that stays the
\* same is not forwarded again.  Stated for ticks outside the maintenance
\* window, where the page is fetched and parsed; a change is a snapshot that
\* differs after the tick or the change flag of the parse.
C3_ForwardOnlyOnChange ==
    [][(StatusTickStep /\ tick'.gate = "out" /\ tick'.forwarded)
          => (system_statuses' # system_statuses \/ tick'.status_changed)]_vars

C8_DiffIdempotent ==
    [][(/\ StatusTickStep
        /\ tick.op = "check_status_task"
        /\ tick.page # None
        /\ tick'.page = tick.page)
          => (/\ ~tick'.status_changed
              /\ redis'.system_status = redis.system_status
              /\ redis'.status_history = redis.status_history)]_vars

\* C10: when a fetch fails after all attempts, the tick leaves the snapshot,
\* the last-seen incident id, the system_status hash, status_history and
\* latest_incident exactly as they were and forwards nothing to the notifier.
C10_FailedFetchNoUpdate ==
    [][((StatusTickStep \/ IncidentTickStep) /\ tick'.fetch = "failed")
          => (/\ Held' = Held
              /\ ~tick'.forwarded
              /\ tick'.sent = "")]_vars

\* A status tick whose three attempts all failed has ended.
C10_Witness ==
    /\ tick.op = "check_status_task"
    /\ tick.gate = "out"
    /\ tick.fetch = "failed"
    /\ statusLoop = "running"

-----------------------------------------------------------------------------
(* Properties of the parser (SpecParse)                                    *)

\* The name a block must carry to be taken for component c.
Keyword(c) ==
    CASE c = "platform" -> KwPlatform
      [] c = "persistent-universe" -> KwPU
      [] c = "electronic-access" -> KwArena

\* The page has a block named after component c, whatever its capitals.
OnPage(content, c) ==
    \E i \in DOMAIN PageBlocks(content) :
        /\ PageBlocks(content)[i].name # <<>>
        /\ Contains(Keyword(c), lower(PageBlocks(content)[i].name[1]))

\* C9: merging a parsed page into the snapshot changes only the components
\* the page contains: every tracked component with no matching block on the
\* page keeps exactly the state it had before the parse.
C9_AbsentComponentsKept ==
    parse.done =>
       \A c \in Components :
           ~OnPage(parse.content, c)
              => parse.result.statuses[c] = parse.statuses[c]

\* A page without an Arena Commander block has been merged: persistent
\* universe took the page's state and electronic-access kept "major".
C9_Witness ==
    /\ parse.done
    /\ parse.content = "no-arena"
    /\ parse.statuses["electronic-access"] = "major"
    /\ parse.statuses["persistent-universe"] = "operational"
    /\ parse.result.statuses["persistent-universe"] = "degraded"
    /\ parse.result.statuses["electronic-access"] = "major"

-----------------------------------------------------------------------------
(* Persistence of the status snapshot (Spec)                               *)

\* The system_status hash holds exactly the statuses st.
Persisted(store, st) ==
    store.system_status # <<>> /\ store.system_status[1].val = st

\* C11: whenever a status tick ends with a snapshot that differs from the one
\* it started with, the system_status hash equals the new snapshot at the
\* end of that tick.  Stated for ticks in which no store call raised.
C11_ChangePersisted ==
    [][(/\ StatusTickStep
        /\ ~tick'.store_raised
        /\ system_statuses' # system_statuses)
          => Persisted(redis', system_statuses')]_vars

\* The keys that cache status and incident data.
CacheKeys == {"system_status", "latest_incident"}

\* C12: every write of cached status or incident data (system_status,
\* latest_incident) leaves the key with a finite time-to-live, so a store
\* left alone for longer than that no longer serves the old value.  Stated
\* for steps in which no store call raised.
C12_CacheWritesExpire ==
    [][~tick'.store_raised =>
          \A k \in CacheKeys :
              (redis'[k] # redis[k] /\ redis'[k] # <<>>)
                 => redis'[k][1].ttl = "ttl"]_vars

\* C13: when the store is unavailable during a tick, only the persistence
\* step of that tick is lost: the fetch and the parse still run and the
\* snapshot takes the newly parsed values.  A tick in which a store call
\* raised has therefore made its fetch, and what it parsed is in the
\* snapshot.
C13_StoreFailureLosesOnlyPersistence ==
    [][((StatusTickStep \/ IncidentTickStep) /\ tick'.store_raised)
          => (/\ tick'.fetch # "none"
              /\ tick'.page # None
                    => system_statuses'
                          = parse_status_page(tick'.page, system_statuses).statuses)
       ]_vars

\* C14: when a polling loop stops (shutdown or cog unload) its cache state
\* is written to the store: once the after-loop handler has run, the
\* system_status hash equals the in-memory snapshot and last_incident_id
\* equals the in-memory last-seen id when one is set.  Stated for handlers
\* whose store call did not raise.
C14_StopFlushes ==
    [][/\ (after_status_check /\ ~tick'.store_raised)
             => (statusLoop' = "stopped" /\ Persisted(redis', system_statuses'))
       /\ (after_incidents_check /\ ~tick'.store_raised /\ LastSeen # None)
             => (/\ incidentLoop' = "stopped"
                 /\ LastSeen' = LastSeen
                 /\ redis'.last_incident_id = LastSeen)]_vars

\* The status loop has stopped with platform "major" in the snapshot and in
\* the store.
C14_Witness ==
    /\ tick.op = "after_status_check"
    /\ ~tick.store_raised
    /\ statusLoop = "stopped"
    /\ system_statuses["platform"] = "major"
    /\ Persisted(redis, system_statuses)

-----------------------------------------------------------------------------
(* Properties of check_status at its await points (SpecAwait)              *)

\* C15: stopping the status loop is clean: after the stop is requested no
\* new tick starts, and a tick in flight at that moment runs on to its end
\* (it is not cut between updating the snapshot and persisting or
\* notifying).
C15_CleanStop ==
    [][/\ call_check_status("task") => statusLoop = "running"
       /\ cancel_check_status_task => co'["task"] = co["task"]]_vars

\* Both coroutines are between runs.
BothFinished == \A w \in Who : co[w].pc = "idle"

\* C16: a status check started by a slash command and a periodic tick may
\* interleave at their awaits; once both have finished, the snapshot and the
\* stored system_status hash both hold the statuses of the page parsed last
\* (the snapshot is what the last parse left; the hash, when there is one,
\* equals it).
C16_NoLostUpdate ==
    (BothFinished /\ redis.system_status # <<>>)
       => redis.system_status[1].val = system_statuses

\* The states a component can have.
ComponentStates == STATUS_EMOJIS \cup {"unknown"}

\* C17: in every reachable state the snapshot holds exactly the three
\* tracked components, each with one state, and that state is one of
\* operational, degraded, partial, major, maintenance, unknown.
C17_SnapshotWellFormed ==
    /\ DOMAIN system_statuses = Components
    /\ \A c \in Components : system_statuses[c] \in ComponentStates

-----------------------------------------------------------------------------
(* Properties of the parser, continued (SpecParse)                         *)

\* The words of a text without regard to capitals.
Words(s) == [i \in DOMAIN s |-> s[i].w]

\* The name holds the keyword of component c, capitals aside.
HasKeyword(name, c) ==
    \E i \in 1..Len(name) :
        /\ i + Len(Keyword(c)) - 1 <= Len(name)
        /\ SubSeq(Words(name), i, i + Len(Keyword(c)) - 1) = Words(Keyword(c))

\* The order in which the keywords are tried.
Rank(c) ==
    CASE c = "platform" -> 1
      [] c = "persistent-universe" -> 2
      [] c = "electronic-access" -> 3

\* Block b is complete (name and status element present) and is taken for
\* component c.
Updates(b, c) ==
    /\ b.name # <<>>
    /\ b.status # "<nospan>"
    /\ HasKeyword(b.name[1], c)
    /\ \A d \in Components : Rank(d) < Rank(c) => ~HasKeyword(b.name[1], d)

\* The blocks of a page that update component c.
Updating(content, c) ==
    {i \in DOMAIN PageBlocks(content) : Updates(PageBlocks(content)[i], c)}

\* The state the last of them carries.
LastStatus(content, c) ==
    LET i == CHOOSE k \in Updating(content, c) :
                 \A j \in Updating(content, c) : j <= k
        st == PageBlocks(content)[i].status
    IN  IF st = "<noattr>" THEN "unknown" ELSE st

\* C18: parsing is robust and selective: a block lacking a name or a status
\* element is skipped, a block whose name holds none of the keywords
\* platform / persistent universe / arena commander (capitals aside) updates
\* nothing, and a page with no Arena Commander block updates only platform
\* and persistent-universe.  So a component changes only through a complete
\* block named after it and then has the state of the last such block; the
\* parse always ends with a result.
C18_ParserSelective ==
    parse.done =>
       \A c \in Components :
           parse.result.statuses[c] =
              IF Updating(parse.content, c) = {} THEN parse.statuses[c]
              ELSE LastStatus(parse.content, c)

\* A page with a nameless block, a block without status element, a block
\* named Launcher and an Arena Commander block without data-status has been
\* parsed: only electronic-access changed, to "unknown".
C18_Witness ==
    /\ parse.done
    /\ parse.content = "odd"
    /\ parse.statuses = [c \in Components |-> "major"]
    /\ parse.result.statuses["platform"] = "major"
    /\ parse.result.statuses["persistent-universe"] = "major"
    /\ parse.result.statuses["electronic-access"] = "unknown"

-----------------------------------------------------------------------------
(* Incident built from the feed (SpecFeed)                                 *)

StatusKeyword(t) == t \in STATUS_EMOJIS
ComponentTag(t)  == t \notin STATUS_EMOJIS

\* Positions of the status keywords among the tags, and the one named first.
StatusPositions(tags) == {i \in 1..Len(tags) : StatusKeyword(tags[i])}
FirstStatus(tags) ==
    IF StatusPositions(tags) = {} THEN "unknown"
    ELSE tags[CHOOSE i \in StatusPositions(tags) :
                  \A j \in StatusPositions(tags) : i <= j]

Elements(seq) == {seq[i] : i \in 1..Len(seq)}

\* The built incident takes its fields from the first entry and nothing
\* from a later one; an empty feed gives None.
FirstEntryOnly ==
    /\ feed.entries = << >> => feed.result = << >>
    /\ feed.result # << >> =>
           /\ feed.entries # << >>
           /\ feed.result[1].guid = feed.entries[1].guid
           /\ feed.result[1].title = feed.entries[1].title

StatusAndComponents ==
    feed.result # << >> =>
        /\ feed.result[1].status = FirstStatus(feed.entries[1].tags)
        /\ feed.result[1].components = SelectSeq(feed.entries[1].tags, ComponentTag)
        /\ feed.result[1].status \notin Elements(feed.result[1].components)

\* C19 (as stated): the incident comes from the first entry only, None for
\* an empty feed; status is the first status keyword among the tags (else
\* 'unknown'), components the tags that are not status keywords, no tag is
\* both, and every tag of the entry is either a component or the status.
C19_NoTagDropped ==
    feed.done =>
        /\ FirstEntryOnly
        /\ StatusAndComponents
        /\ feed.result # << >> =>
               \A i \in 1..Len(feed.entries[1].tags) :
                   \/ feed.entries[1].tags[i] \in Elements(feed.result[1].components)
                   \/ feed.entries[1].tags[i] = feed.result[1].status

\* C19 (amended): as above, except that status keywords other than the
\* first are in neither field: the tags kept are the components and the
\* first status keyword, the tags left out are the later status keywords.
C19_FirstStatusRestComponents ==
    feed.done =>
        /\ FirstEntryOnly
        /\ StatusAndComponents
        /\ feed.result # << >> =>
               \A i \in 1..Len(feed.entries[1].tags) :
                   \/ feed.entries[1].tags[i] \in Elements(feed.result[1].components)
                   \/ feed.entries[1].tags[i] = feed.result[1].status
                   \/ /\ StatusKeyword(feed.entries[1].tags[i])
                      /\ \E j \in StatusPositions(feed.entries[1].tags) : j < i

\* An entry followed by an older one, tagged with two status keywords
\* around a component: the second keyword is left out.
C19_Witness ==
    /\ feed.done
    /\ Len(feed.entries) = 2
    /\ feed.entries[1].tags = <<"major", "launcher", "degraded">>
    /\ feed.result # << >>
    /\ feed.result[1].status = "major"
    /\ feed.result[1].components = <<"launcher">>
    /\ feed.result[1].guid = "B"

-----------------------------------------------------------------------------
(* Rate limiting of the organization API (SpecApi)                         *)

\* The call got as far as the request loop with a session to ask.
Asked == api.done /\ api.up /\ ~api.cached /\ api.session = "open"

\* Attempt k was made and answered 429.
RateLimited(k) ==
    /\ Asked
    /\ k <= api.result.attempts
    /\ api.run[k].kind = "limited"

-----------------------------------------------------------------------------
(* Start of the loops (Spec)                                               *)

\* The step did something: a fetch, a change of what is held, a forward or
\* a post.
DidWork ==
    \/ tick'.fetch # "none"
    \/ Held' # Held
    \/ tick'.forwarded
    \/ tick'.sent # ""

\* C21: a tick does work only while the connection is ready; the before-loop
\* handler runs once readiness is signalled and leaves the persisted state
\* restored (the snapshot equal to the system_status hash when there is one,
\* the last-seen id equal to last_incident_id) before the first tick runs.
\* Stated for handlers whose store call did not raise.
C21_ReadyRestoreThenFetch ==
    [][/\ ((StatusTickStep \/ IncidentTickStep) /\ DidWork) => ready
       /\ (StatusTickStep \/ IncidentTickStep)
             => tick.op \notin {"init", "Restart"}
       /\ (before_status_check /\ ~tick'.store_raised /\ redis.system_status # << >>)
             => (ready /\ Persisted(redis, system_statuses'))
       /\ (before_incidents_check /\ ~tick'.store_raised)
             => (ready /\ LastSeen' = redis.last_incident_id)]_vars

-----------------------------------------------------------------------------
(* Announcing incidents (Spec)                                             *)

\* The step is an incident tick that parsed a feed whose first entry has an
\* id other than the last-seen one.
SawNovel ==
    /\ tick'.feed # None
    /\ FeedEntries(tick'.feed) # << >>
    /\ FeedEntries(tick'.feed)[1].guid # None
    /\ FeedEntries(tick'.feed)[1].guid # LastSeen

\* C22: a tick of RSIIncidentMonitorCog outside the maintenance window, with
\* the incidents channel configured and found, no cached latest_incident, a
\* successful fetch and a first entry whose id is not the last-seen one,
\* posts that incident during the tick.  Stated for ticks in which the
\* store and channel.send answer.
C22_NovelIncidentPosted ==
    [][(/\ check_incidents_task
        /\ ready /\ incidents_channel_id # None
        /\ tick'.gate = "out"
        /\ redis.latest_incident = << >>
        /\ tick'.fetch = "ok"
        /\ SawNovel
        /\ tick'.channel_found /\ tick'.send_ok
        /\ ~tick'.store_raised)
          => tick'.sent = FeedEntries(tick'.feed)[1].guid]_vars

-----------------------------------------------------------------------------
(* A 200 answer of the organization API (SpecApi)                          *)

\* Attempt k was made and answered 200 with a JSON body.
AnsweredOk(k) ==
    /\ Asked
    /\ k <= api.result.attempts
    /\ api.run[k].kind = "ok"

\* C23: on a cache miss, an attempt that receives 200 with a valid JSON body
\* ends the call: it returns the parsed data, the data is stored under the
\* cache key, and no further attempt is made.
C23_OkAnswerReturnedAndCached ==
    \A k \in 1..API_ATTEMPTS :
        AnsweredOk(k) =>
            /\ api.result.data = "data"
            /\ api.result.cached
            /\ api.result.attempts = k

-----------------------------------------------------------------------------
(* The channel-setup view (SpecSetup)                                      *)

\* C24: after any sequence of selections and Reset presses, the Confirm
\* Setup button is enabled only while all four channels are selected.
C24_ConfirmOnlyWhenComplete ==
    ~view.confirm_disabled => all_selected(view)

-----------------------------------------------------------------------------
(* The status history (SpecHistory)                                        *)

\* C25: at the end of a tick that logged a change the list holds at most
\* 100 entries, its head is the change just logged, and the entries are in
\* order of time, newest first.  The bound is stated for ticks whose store
\* calls did not raise.
C25_HistoryKeepsLast100 ==
    /\ (history.writes > 0 /\ ~history.raised)
          => /\ Len(history.list) <= HISTORY_STOP + 1
             /\ Len(history.list) >= 1
    /\ history.writes > 0 => history.list[1].at = history.writes
    /\ \A i \in 1..(Len(history.list) - 1) :
           history.list[i].at > history.list[i + 1].at

\* More than 100 changes were logged and the list holds the last 100.
C25_Witness ==
    /\ history.writes > HISTORY_STOP + 1
    /\ ~history.raised
    /\ Len(history.list) = HISTORY_STOP + 1
    /\ history.list[HISTORY_STOP + 1].at = history.writes - HISTORY_STOP

-----------------------------------------------------------------------------
(* Cached status and fetching (Spec)                                       *)

\* The step is a status tick that returned at `if cached:` without asking
\* the gate or the status page.
SkippedForCache ==
    /\ StatusTickStep
    /\ ready
    /\ ~tick'.store_raised
    /\ tick'.gate = "not asked"
    /\ tick'.fetch = "none"

\* C26: the cached system_status key cannot keep the status loop from
\* fetching for ever, also after a shutdown that flushed the snapshot and a
\* restart: whenever a tick skips the fetch because the key is there, the
\* key carries an expiry, so that a later tick finds it gone and fetches.
C26_CacheCannotFreeze ==
    [][SkippedForCache => (/\ redis.system_status # << >>
                           /\ redis.system_status[1].ttl = "ttl")]_vars

-----------------------------------------------------------------------------
(* The last-seen incident id (Spec)                                        *)

\* C27: the last-seen id, in memory and in the store, moves to an
\* incident's id only in a tick that posted that incident to the incidents
\* channel; when the channel is not found or the send fails the id stays,
\* so that a later tick still finds the incident novel.
C27_LastSeenOnlyWhenPosted ==
    [][IncidentTickStep =>
          /\ LastSeen' # LastSeen => tick'.sent = LastSeen'
          /\ redis'.last_incident_id # redis.last_incident_id
                => tick'.sent = redis'.last_incident_id]_vars

-----------------------------------------------------------------------------
(* Reported changes (Spec)                                                 *)

\* C28: a status tick reports a change, rewrites system_status or adds to
\* status_history only if the snapshot it leaves differs from the snapshot
\* it found in at least one component, whatever blocks the page holds.
C28_ChangeMeansDifference ==
    [][(/\ StatusTickStep
        /\ \/ tick'.status_changed
           \/ redis'.system_status # redis.system_status
           \/ redis'.status_history # redis.status_history)
          => \E c \in Components : system_statuses'[c] # system_statuses[c]]_vars

-----------------------------------------------------------------------------
(* Caching the member list (SpecMembers)                                   *)

-----------------------------------------------------------------------------
(* Shutdown of the process (SpecMain)                                      *)

\* The close calls made on service sv.
ClosesOf(sv) == {i \in 1..Len(proc.closes) : proc.closes[i].service = sv}

====
